---- MODULE Spec2Model ----
(***************************************************************************)
(* Model of the MyDNSHost Go API client (client.go, authenticators).        *)
(*                                                                         *)
(* Conventions                                                             *)
(*   - a Go pointer (to int, bool, string or json.RawMessage) is a         *)
(*     sequence of length at most one: << >> is nil, <<v>> points at v;    *)
(*   - a JSON object as produced by json.Marshal of a struct is the        *)
(*     sequence of its members <<key, literal text>> in struct field       *)
(*     order; the literal text is the JSON text of the value ("300",       *)
(*     "true", "\"www\"");                                                 *)
(*   - a Go (value, error) return pair is a record [val, err, panicked]    *)
(*     whose val and err are pointers in the above sense.                  *)
(***************************************************************************)
EXTENDS Integers, Sequences, FiniteSets, TLC

\* ------------------------------------------------------------------ bounds

\* Largest integer drawn for TTL and priority inputs (inputs are 0..MaxInt).
MaxInt == 1
\* Record identifiers drawn for modify/delete inputs are 1..MaxId.
MaxId == 2
\* Longest batch of operations handed to ModifyRecords.
MaxOps == 2

\* --------------------------------------------------------------- constants

apiHost == "api.mydnshost.co.uk"
apiVersion == "1.0"

\* ----------------------------------------------------------- JSON encoding

Digits == <<"0", "1", "2", "3", "4", "5", "6", "7", "8", "9">>

RECURSIVE Itoa(_)
\* Decimal text of an integer, as fmt's %d and encoding/json write it.
Itoa(n) ==
    IF n < 0 THEN "-" \o Itoa(0 - n)
    ELSE IF n < 10 THEN Digits[n + 1]
    ELSE Itoa(n \div 10) \o Digits[(n % 10) + 1]

\* JSON text of a Go string value.
JString(s) == "\"" \o s \o "\""
\* JSON text of a Go int value.
JInt(n) == Itoa(n)
\* JSON text of a Go bool value.
JBool(b) == IF b THEN "true" ELSE "false"

\* A struct member tagged `json:"k,omitempty"`: omitted when the value is the
\* empty value of its type ("" / 0 / false / nil pointer).
OmitEmptyString(k, s) == IF s = "" THEN << >> ELSE << <<k, JString(s)>> >>
OmitEmptyInt(k, n) == IF n = 0 THEN << >> ELSE << <<k, JInt(n)>> >>
OmitEmptyIntPtr(k, p) == IF p = << >> THEN << >> ELSE << <<k, JInt(p[1])>> >>
OmitEmptyBoolPtr(k, p) == IF p = << >> THEN << >> ELSE << <<k, JBool(p[1])>> >>

\* The keys of an encoded JSON object.
Keys(obj) == {obj[i][1] : i \in DOMAIN obj}
\* The literal text stored under key k (k must be a key of obj).
Value(obj, k) == obj[CHOOSE i \in DOMAIN obj : obj[i][1] = k][2]

\* ------------------------------------------------------- record operations

\* What a caller writes in a Record composite literal: every field is either
\* left out (<< >>) or given a value (<<v>>).
Literals ==
    [name     : {<< >>, <<"">>, <<"www">>},
     type     : {<< >>, <<"A">>},
     content  : {<< >>, <<"0.0.0.0">>},
     ttl      : {<< >>} \cup {<<n>> : n \in 0..MaxInt},
     priority : {<< >>} \cup {<<n>> : n \in 0..MaxInt},
     disabled : {<< >>, <<FALSE>>, <<TRUE>>}]

\* The Go Record value a composite literal denotes: fields left out take the
\* zero value of the field's type; Priority and Disabled are pointers.
Record(lit) ==
    [Name     |-> IF lit.name = << >> THEN "" ELSE lit.name[1],
     Type     |-> IF lit.type = << >> THEN "" ELSE lit.type[1],
     Content  |-> IF lit.content = << >> THEN "" ELSE lit.content[1],
     TTL      |-> IF lit.ttl = << >> THEN 0 ELSE lit.ttl[1],
     Priority |-> lit.priority,
     Disabled |-> lit.disabled]

\* json.Marshal of a Record.
MarshalRecord(r) ==
    OmitEmptyString("name", r.Name)
    \o OmitEmptyString("type", r.Type)
    \o OmitEmptyString("content", r.Content)
    \o OmitEmptyInt("ttl", r.TTL)
    \o OmitEmptyIntPtr("priority", r.Priority)
    \o OmitEmptyBoolPtr("disabled", r.Disabled)

\* The ExistingRecord value ExistingRecord{Record: record, Id: id}.
ExistingRecord(record, id) ==
    [Record |-> record, Id |-> id, ChangedAt |-> 0, ChangedBy |-> << >>]

\* Mutant: changed_at written without omitempty.
MarshalExistingRecord_KeepMetadata(e) ==
    MarshalRecord(e.Record)
    \o << <<"id", JInt(e.Id)>>, <<"changed_at", JInt(e.ChangedAt)>> >>
    \o OmitEmptyIntPtr("changed_by", e.ChangedBy)

\* json.Marshal of an ExistingRecord: the embedded Record's members first.
MarshalExistingRecord(e) ==
    MarshalRecord(e.Record)
    \o << <<"id", JInt(e.Id)>> >>
    \o OmitEmptyInt("changed_at", e.ChangedAt)
    \o OmitEmptyIntPtr("changed_by", e.ChangedBy)

ModifyRecord(id, record) == MarshalExistingRecord(ExistingRecord(record, id))

DeleteRecord(id) == << <<"id", JInt(id)>>, <<"delete", JBool(TRUE)>> >>

CreateRecord(record) == MarshalRecord(record)


\* A RecordOperation is raw bytes; the exported type lets a caller hand in
\* bytes that are not JSON. `{"id":}` stands for those: a member with no value.
InvalidOp == << <<"id", "">> >>

\* Whether raw bytes hold well-formed JSON.
ValidJSON(raw) == \A i \in DOMAIN raw : raw[i][2] # ""

\* ------------------------------------------------------------------- state

VARIABLES
    authenticator,   \* Client.Authenticator, fixed at construction
    pc,              \* position of the current call: idle, do, decode, returned
    call,            \* the endpoint method called and its arguments
    sent,            \* the request handed to http.DefaultClient.Do (pointer)
    authCalls,       \* AddHeaders invocations made by the current call
    cancelled,       \* the supplied context is done
    cancelledEarly,  \* the context was done before the whole body had arrived
    net,             \* what the server's reply has delivered: none, headers, body
    wire,            \* the bytes of the reply body
    bodyState,       \* res.Body: none (no response obtained), open, closed
    closeCalls,      \* res.Body.Close invocations made by the current call
    reachedUnmarshal,\* the wrapper went on to decode *res.Response
    result,          \* what the endpoint method returned
    encIn,           \* encoder run: the constructor called and its arguments
    encOut           \* encoder run: the RecordOperation it returned

vars == <<authenticator, pc, call, sent, authCalls, cancelled, cancelledEarly,
          net, wire, bodyState, closeCalls, reachedUnmarshal, result,
          encIn, encOut>>

clientVars == <<authenticator, pc, call, sent, authCalls, cancelled,
                cancelledEarly, net, wire, bodyState, closeCalls,
                reachedUnmarshal, result>>

encVars == <<encIn, encOut>>

\* ---------------------------------------------------------- authenticators

NilAuthenticator == [kind |-> "nil"]

ApiKeyAuthenticators ==
    {[kind |-> "ApiKeyAuthenticator", User |-> "user@example.com",
      Key |-> "THIS-IS-A-DEMO-API-KEY"]}

DomainKeyAuthenticators ==
    {[kind |-> "DomainKeyAuthenticator", Domain |-> "example.com",
      Key |-> "DOMAIN-KEY"]}

Authenticators ==
    {NilAuthenticator} \cup ApiKeyAuthenticators \cup DomainKeyAuthenticators

\* r.Header[k] = v : assignment into the header map.
SetHeader(header, k, v) ==
    [h \in DOMAIN header \cup {k} |-> IF h = k THEN v ELSE header[h]]

\* Mutant: the key is written under the user header as well.
ApiKeyAddHeaders_KeyAsUser(a, r) ==
    [r EXCEPT !.Header =
        SetHeader(SetHeader(r.Header, "X-API-User", <<a.Key>>),
                  "X-API-Key", <<a.Key>>)]

\* (a *ApiKeyAuthenticator) AddHeaders(r)
ApiKeyAddHeaders(a, r) ==
    [r EXCEPT !.Header =
        SetHeader(SetHeader(r.Header, "X-API-User", <<a.User>>),
                  "X-API-Key", <<a.Key>>)]

\* (a *DomainKeyAuthenticator) AddHeaders(r)
DomainKeyAddHeaders(a, r) ==
    [r EXCEPT !.Header =
        SetHeader(SetHeader(r.Header, "X-Domain", <<a.Domain>>),
                  "X-Domain-Key", <<a.Key>>)]

\* Dynamic dispatch of ClientAuthenticator.AddHeaders.
AddHeaders(a, r) ==
    IF a.kind = "ApiKeyAuthenticator" THEN ApiKeyAddHeaders(a, r)
    ELSE DomainKeyAddHeaders(a, r)


\* ------------------------------------------------------ endpoint catalogue

Endpoints == {"Ping", "UserData", "Domains", "Records", "ModifyRecords"}

\* Domain arguments: a hostname, and text holding an invalid URL escape, on
\* which URL parsing (and so request construction) fails.
DomainArgs == {"example.com", "%zz"}

\* time.Now().Unix() readings.
Times == {1700000000}

\* The operations a batch is drawn from: one of each constructor, and bytes
\* that no constructor returns.
SampleLiteral ==
    [name |-> <<"test">>, type |-> <<"A">>, content |-> <<"0.0.0.0">>,
     ttl |-> <<84600>>, priority |-> << >>, disabled |-> << >>]

ConstructedOps ==
    {CreateRecord(Record(SampleLiteral)),
     ModifyRecord(1, Record(SampleLiteral)),
     DeleteRecord(2)}

BatchOps == ConstructedOps \cup {InvalidOp}

Batches == UNION {[1..n -> BatchOps] : n \in 0..MaxOps}

\* The HTTP method each wrapper passes to request.
Method(e) == IF e = "ModifyRecords" THEN "POST" ELSE "GET"

\* The route each wrapper passes to request, as its "/"-separated pieces.
Route(e, domain, now) ==
    CASE e = "Ping"          -> <<"ping", Itoa(now)>>
      [] e = "UserData"      -> <<"userdata">>
      [] e = "Domains"       -> <<"domains">>
      [] e = "Records"       -> <<"domains", domain, "records">>
      [] e = "ModifyRecords" -> <<"domains", domain, "records">>

\* The name of the result type each wrapper decodes into.
ResultType(e) ==
    CASE e = "Ping"          -> "*PingResponse"
      [] e = "UserData"      -> "*UserDataResponse"
      [] e = "Domains"       -> "map[string]AccessLevel"
      [] e = "Records"       -> "*RecordsResponse"
      [] e = "ModifyRecords" -> "*ModifyRecordsResponse"

\* Mutant: every slot is filled from the first operation.
BuildRecords_FirstOnly(operations) ==
    [i \in 1..Len(operations) |-> operations[1]]

\* ModifyRecords' copy loop: records[i] = json.RawMessage(operations[i]).
BuildRecords(operations) ==
    [i \in 1..Len(operations) |-> operations[i]]

\* The body argument each wrapper passes to request: nil, or the apiRequest.
RequestBody(e, operations) ==
    IF e = "ModifyRecords"
    THEN << [Data |-> [Records |-> BuildRecords(operations)]] >>
    ELSE << >>

\* ------------------------------------------------------------------ errors

MarshalError == [class |-> "marshal", text |-> "json: error calling MarshalJSON"]
URLError == [class |-> "url", text |-> "parse: invalid URL escape"]
TransportError == [class |-> "transport", text |-> "dial tcp: connection refused"]
ContextError == [class |-> "context", text |-> "context canceled"]
SyntaxError == [class |-> "decode", text |-> "invalid character"]
TypeError == [class |-> "endpointDecode", text |-> "json: cannot unmarshal"]
\* fmt.Errorf("API error: %s", *response.Error)
APIError(msg) == [class |-> "api", text |-> "API error: " \o msg]

\* ----------------------------------------------------------------- request

\* json.Marshal(body) of an apiRequest: each RawMessage is written as it is,
\* and bytes that are not JSON make the whole Marshal fail.
MarshalBody(body) ==
    IF \A i \in DOMAIN body.Data.Records : ValidJSON(body.Data.Records[i])
    THEN [err |-> << >>,
          b |-> << [data |-> [records |-> body.Data.Records]] >>]
    ELSE [err |-> <<MarshalError>>, b |-> << >>]

\* The URL fmt.Sprintf builds, as its "/"-separated pieces.
URL(route) == <<"https:", "", apiHost, apiVersion>> \o route

\* Mutant: the request is built without the caller's context.
NewRequestWithContext_Background(method, url, reader) ==
    IF \E i \in DOMAIN url : url[i] = "%zz"
    THEN [err |-> <<URLError>>, req |-> << >>]
    ELSE [err |-> << >>,
          req |-> << [ctx |-> "background", Method |-> method, URL |-> url,
                      Header |-> [h \in {} |-> << >>], Body |-> reader] >>]

\* http.NewRequestWithContext(ctx, method, url, reader): fails when the URL
\* does not parse; the new request has an empty header map.
NewRequestWithContext(method, url, reader) ==
    IF \E i \in DOMAIN url : url[i] = "%zz"
    THEN [err |-> <<URLError>>, req |-> << >>]
    ELSE [err |-> << >>,
          req |-> << [ctx |-> "ctx", Method |-> method, URL |-> url,
                      Header |-> [h \in {} |-> << >>], Body |-> reader] >>]

\* request, from its entry to the call of http.DefaultClient.Do: the error it
\* returns early, or the request handed to Do and the AddHeaders calls made.
RequestStart(auth, method, route, body) ==
    LET m == IF body = << >> THEN [err |-> << >>, b |-> << >>]
             ELSE MarshalBody(body[1])
    IN  IF m.err # << >> THEN [err |-> m.err, req |-> << >>, authCalls |-> 0]
        ELSE LET nr == NewRequestWithContext(method, URL(route), m.b)
             IN  IF nr.err # << >>
                 THEN [err |-> nr.err, req |-> << >>, authCalls |-> 0]
                 ELSE IF auth.kind # "nil"
                 THEN [err |-> << >>, req |-> <<AddHeaders(auth, nr.req[1])>>,
                       authCalls |-> 1]
                 ELSE [err |-> << >>, req |-> nr.req, authCalls |-> 0]

\* The request's context is done: Do and reads of the body fail.
CtxDone(req) == req.ctx = "ctx" /\ cancelled

\* -------------------------------------------------------- response envelope

\* Reply bodies: bytes that are not a JSON envelope, or an envelope whose
\* members are each absent, null or a value.
Wires ==
    [malformed : {TRUE},
     error     : {<<"absent">>},
     errorData : {<<"absent">>},
     response  : {<<"absent">>}]
    \cup
    [malformed : {FALSE},
     error     : {<<"absent">>, <<"null">>, <<"string", "">>,
                  <<"string", "invalid domain">>},
     errorData : {<<"absent">>, <<"object", "domain", "not found">>},
     response  : {<<"absent">>, <<"null">>, <<"raw", "{...}">>,
                  <<"raw", "[...]">>}]

NoWire ==
    [malformed |-> TRUE, error |-> <<"absent">>, errorData |-> <<"absent">>,
     response |-> <<"absent">>]

\* Mutant: a null error member decodes to a pointer at the empty string.
DecodeEnvelope_NullAsEmpty(w) ==
    [Error     |-> IF w.error[1] = "string" THEN <<w.error[2]>>
                   ELSE IF w.error[1] = "null" THEN <<"">> ELSE << >>,
     ErrorData |-> IF w.errorData[1] = "object"
                   THEN {<<w.errorData[2], w.errorData[3]>>} ELSE {},
     Response  |-> IF w.response[1] = "raw" THEN <<w.response[2]>> ELSE << >>]

\* json.NewDecoder(res.Body).Decode(response) on a well-formed envelope: a
\* pointer field stays nil for an absent or null member and points at the
\* value otherwise; the map stays nil unless an object is given.
DecodeEnvelope(w) ==
    [Error     |-> IF w.error[1] = "string" THEN <<w.error[2]>> ELSE << >>,
     ErrorData |-> IF w.errorData[1] = "object"
                   THEN {<<w.errorData[2], w.errorData[3]>>} ELSE {},
     Response  |-> IF w.response[1] = "raw" THEN <<w.response[2]>> ELSE << >>]

\* Mutant: the envelope's error is never looked at.
ApiFailed_Never(response) == FALSE

\* request's test of the envelope: response.Error != nil.
ApiFailed(response) == response.Error # << >>

\* request, from the decoding of the body to its return: (res, err).
RequestFinish(w) ==
    IF w.malformed THEN [res |-> << >>, err |-> <<SyntaxError>>]
    ELSE LET response == DecodeEnvelope(w)
         IN  IF ApiFailed(response)
             THEN [res |-> << >>,
                   err |-> <<APIError(response.Error[1])>>]
             ELSE [res |-> <<response>>, err |-> << >>]

\* Mutant: the deferred Close is missing.
DeferredClose_Missing(b) == b

\* defer res.Body.Close(), run when request returns.
DeferredClose(b) == "closed"

\* json.Unmarshal(raw, target) for an endpoint's result type: every target is
\* a struct or a map, which a JSON object fills and a JSON array does not.
Unmarshal(raw, e) == IF raw = "{...}" THEN << >> ELSE <<TypeError>>

\* An endpoint method after request has returned (res, err): what it returns
\* to its caller, and whether it went on to decode *res.Response.
Wrapper(e, r) ==
    IF r.err # << >>
    THEN [val |-> << >>, err |-> r.err, panicked |-> FALSE, reached |-> FALSE]
    ELSE IF r.res[1].Response = << >>
    THEN [val |-> << >>, err |-> << >>, panicked |-> TRUE, reached |-> TRUE]
    ELSE [val |-> <<ResultType(e)>>,
          err |-> Unmarshal(r.res[1].Response[1], e),
          panicked |-> FALSE, reached |-> TRUE]

NoResult == [val |-> << >>, err |-> << >>, panicked |-> FALSE]

Returned(w) == [val |-> w.val, err |-> w.err, panicked |-> w.panicked]


\* ----------------------------------------------------------- client calls

Init ==
    /\ authenticator \in Authenticators
    /\ pc = "idle"
    /\ call = [endpoint |-> "Ping", domain |-> "", operations |-> << >>]
    /\ sent = << >>
    /\ authCalls = 0
    /\ cancelled = FALSE
    /\ cancelledEarly = FALSE
    /\ net = "none"
    /\ wire = NoWire
    /\ bodyState = "none"
    /\ closeCalls = 0
    /\ reachedUnmarshal = FALSE
    /\ result = NoResult
    /\ encIn = [kind |-> "none", id |-> 0, lit |-> SampleLiteral]
    /\ encOut = << >>

\* An endpoint method is called: the wrapper builds route and payload and
\* request runs up to http.DefaultClient.Do, or returns its early error.
Call(e, domain, operations, now) ==
    /\ pc = "idle"
    /\ LET s == RequestStart(authenticator, Method(e), Route(e, domain, now),
                             RequestBody(e, operations))
           w == Wrapper(e, [res |-> << >>, err |-> s.err])
       IN  /\ call' = [endpoint |-> e, domain |-> domain,
                       operations |-> operations]
           /\ sent' = s.req
           /\ authCalls' = s.authCalls
           /\ pc' = IF s.err # << >> THEN "returned" ELSE "do"
           /\ result' = IF s.err # << >> THEN Returned(w) ELSE result
    /\ UNCHANGED <<authenticator, cancelled, cancelledEarly, net, wire,
                   bodyState, closeCalls, reachedUnmarshal>>
    /\ UNCHANGED encVars

\* The caller cancels the context (or its deadline passes).
Cancel ==
    /\ pc \in {"idle", "do", "decode"}
    /\ ~cancelled
    /\ cancelled' = TRUE
    /\ cancelledEarly' = (net # "body")
    /\ UNCHANGED <<authenticator, pc, call, sent, authCalls, net, wire,
                   bodyState, closeCalls, reachedUnmarshal, result>>
    /\ UNCHANGED encVars

\* The reply's status line and headers arrive. A request whose context is
\* done has been aborted by the transport and receives nothing more.
ServerHeaders ==
    /\ pc = "do"
    /\ net = "none"
    /\ ~CtxDone(sent[1])
    /\ net' = "headers"
    /\ UNCHANGED <<authenticator, pc, call, sent, authCalls, cancelled,
                   cancelledEarly, wire, bodyState, closeCalls,
                   reachedUnmarshal, result>>
    /\ UNCHANGED encVars

\* The reply's body has arrived in full.
ServerBody(w) ==
    /\ pc \in {"do", "decode"}
    /\ net = "headers"
    /\ ~CtxDone(sent[1])
    /\ net' = "body"
    /\ wire' = w
    /\ UNCHANGED <<authenticator, pc, call, sent, authCalls, cancelled,
                   cancelledEarly, bodyState, closeCalls, reachedUnmarshal,
                   result>>
    /\ UNCHANGED encVars

\* http.DefaultClient.Do returns an error; request and the wrapper pass it on.
DoError(err) ==
    /\ pc = "do"
    /\ pc' = "returned"
    /\ result' = Returned(Wrapper(call.endpoint, [res |-> << >>, err |-> <<err>>]))
    /\ UNCHANGED <<authenticator, call, sent, authCalls, cancelled,
                   cancelledEarly, net, wire, bodyState, closeCalls,
                   reachedUnmarshal>>
    /\ UNCHANGED encVars

\* Do fails because the request's context is done.
DoCancelled ==
    /\ pc = "do"
    /\ CtxDone(sent[1])
    /\ DoError(ContextError)

\* Do fails on the network before any reply.
DoFailed ==
    /\ pc = "do"
    /\ net = "none"
    /\ ~CtxDone(sent[1])
    /\ DoError(TransportError)

\* Do returns the response once its headers are in: the body is now held.
DoResponse ==
    /\ pc = "do"
    /\ net # "none"
    /\ ~CtxDone(sent[1])
    /\ pc' = "decode"
    /\ bodyState' = "open"
    /\ UNCHANGED <<authenticator, call, sent, authCalls, cancelled,
                   cancelledEarly, net, wire, closeCalls, reachedUnmarshal,
                   result>>
    /\ UNCHANGED encVars

\* request from the decoding of the body to its return, followed by the rest
\* of the wrapper; r is what request returns.
Complete(r) ==
    LET w == Wrapper(call.endpoint, r)
    IN  /\ pc' = "returned"
        /\ bodyState' = DeferredClose(bodyState)
        /\ closeCalls' = IF DeferredClose(bodyState) = bodyState
                         THEN closeCalls ELSE closeCalls + 1
        /\ reachedUnmarshal' = w.reached
        /\ result' = Returned(w)
        /\ UNCHANGED <<authenticator, call, sent, authCalls, cancelled,
                       cancelledEarly, net, wire>>
        /\ UNCHANGED encVars

\* The read of the body fails because the request's context is done.
DecodeAborted ==
    /\ pc = "decode"
    /\ CtxDone(sent[1])
    /\ Complete([res |-> << >>, err |-> <<ContextError>>])

\* The read of the body fails on the network before the body is complete.
ReadFailed ==
    /\ pc = "decode"
    /\ net = "headers"
    /\ ~CtxDone(sent[1])
    /\ Complete([res |-> << >>, err |-> <<TransportError>>])

\* The body is read and decoded.
Decode ==
    /\ pc = "decode"
    /\ net = "body"
    /\ Complete(RequestFinish(wire))

\* The caller is done with the result; the client is ready for another call
\* with a fresh context.
Done ==
    /\ pc = "returned"
    /\ pc' = "idle"
    /\ call' = [endpoint |-> "Ping", domain |-> "", operations |-> << >>]
    /\ sent' = << >>
    /\ authCalls' = 0
    /\ cancelled' = FALSE
    /\ cancelledEarly' = FALSE
    /\ net' = "none"
    /\ wire' = NoWire
    /\ bodyState' = "none"
    /\ closeCalls' = 0
    /\ reachedUnmarshal' = FALSE
    /\ result' = NoResult
    /\ UNCHANGED authenticator
    /\ UNCHANGED encVars

Next ==
    \/ \E e \in Endpoints, d \in DomainArgs, ops \in Batches, now \in Times :
          /\ (e \notin {"Records", "ModifyRecords"} => d = "example.com")
          /\ (e # "ModifyRecords" => ops = << >>)
          /\ Call(e, d, ops, now)
    \/ Cancel
    \/ ServerHeaders
    \/ \E w \in Wires : ServerBody(w)
    \/ DoCancelled
    \/ DoFailed
    \/ DoResponse
    \/ DecodeAborted
    \/ ReadFailed
    \/ Decode
    \/ Done

Spec == Init /\ [][Next]_vars

\* Once a call is in flight its own steps are taken: Do returns when it can,
\* and the decoding proceeds when it can. Nothing is assumed of the server.
FairSpec ==
    Spec /\ WF_vars(DoCancelled) /\ WF_vars(DoResponse)
         /\ WF_vars(DecodeAborted) /\ WF_vars(Decode)

\* ------------------------------------------------------------ encoder runs

EncInit ==
    /\ Init
    /\ authenticator = NilAuthenticator

\* One of the three constructors is called on a Record literal.
Construct(kind, id, lit) ==
    /\ encIn.kind = "none"
    /\ encIn' = [kind |-> kind, id |-> id, lit |-> lit]
    /\ encOut' = CASE kind = "create" -> CreateRecord(Record(lit))
                   [] kind = "modify" -> ModifyRecord(id, Record(lit))
                   [] kind = "delete" -> DeleteRecord(id)
    /\ UNCHANGED clientVars

EncNext ==
    \E kind \in {"create", "modify", "delete"}, id \in 1..MaxId,
       lit \in Literals : Construct(kind, id, lit)

EncSpec == EncInit /\ [][EncNext]_vars


\* ------------------------------------------------------------- properties

\* The classes of the error a call returned (empty when it returned none).
ErrClasses(r) == {r.err[i].class : i \in DOMAIN r.err}

\* The call has returned after request read the body and decoded it as a
\* well-formed envelope.
EnvelopeDecoded ==
    /\ pc = "returned"
    /\ bodyState # "none"
    /\ net = "body"
    /\ ~wire.malformed
    /\ "context" \notin ErrClasses(result)

\* C1: when the decoded envelope has a non-empty error, the call returns an
\* error and the wrapper never goes on to decode the response payload,
\* whether or not the envelope holds a response as well.
C1_ErrorEnvelopeNeverDecoded ==
    (EnvelopeDecoded /\ wire.error[1] = "string" /\ wire.error[2] # "")
        => /\ result.err # << >>
           /\ result.val = << >>
           /\ ~result.panicked
           /\ ~reachedUnmarshal

\* C1 witness: a call returned an API error for an envelope that held both a
\* non-empty error and a response payload.
C1_Witness ==
    /\ EnvelopeDecoded
    /\ wire.error = <<"string", "invalid domain">>
    /\ wire.response = <<"raw", "{...}">>
    /\ "api" \in ErrClasses(result)

\* C2 as stated: an envelope whose error is absent, null or the empty string
\* never yields an API error; request hands the envelope to the wrapper, and
\* with a well-formed response the call returns the typed result, no error.
C2_Original ==
    (EnvelopeDecoded
     /\ (wire.error[1] \in {"absent", "null"} \/ wire.error = <<"string", "">>))
        => /\ "api" \notin ErrClasses(result)
           /\ reachedUnmarshal
           /\ (wire.response = <<"raw", "{...}">>
                 => /\ result.err = << >>
                    /\ result.val = <<ResultType(call.endpoint)>>
                    /\ ~result.panicked)

\* C2 amended: request raises an API error exactly when the envelope's error
\* member is a string (the empty string included); when it is absent or null
\* request hands the envelope to the wrapper, and with a well-formed response
\* the call returns the typed result and no error.
C2_ApiErrorIffErrorPresent ==
    EnvelopeDecoded
        => /\ ("api" \in ErrClasses(result) <=> wire.error[1] = "string")
           /\ (wire.error[1] \in {"absent", "null"}
                 => /\ reachedUnmarshal
                    /\ (wire.response = <<"raw", "{...}">>
                          => /\ result.err = << >>
                             /\ result.val = <<ResultType(call.endpoint)>>
                             /\ ~result.panicked))

\* C2 witness: a null error with a well-formed response came back as a typed
\* result with no error.
C2_Witness ==
    /\ EnvelopeDecoded
    /\ wire.error = <<"null">>
    /\ wire.response = <<"raw", "{...}">>
    /\ result.err = << >>
    /\ result.val = <<ResultType(call.endpoint)>>

\* C3: the body ModifyRecords sends is {"data": {"records": [...]}} whose
\* records array holds the submitted operations, one entry each, unchanged
\* and in submission order.
C3_BatchPreservesOperations ==
    (sent # << >> /\ call.endpoint = "ModifyRecords")
        => /\ \A i \in DOMAIN call.operations :
                 call.operations[i] \in ConstructedOps
           /\ sent[1].Method = "POST"
           /\ Len(sent[1].Body) = 1
           /\ DOMAIN sent[1].Body[1] = {"data"}
           /\ DOMAIN sent[1].Body[1].data = {"records"}
           /\ Len(sent[1].Body[1].data.records) = Len(call.operations)
           /\ \A i \in DOMAIN call.operations :
                 sent[1].Body[1].data.records[i] = call.operations[i]

\* C3 witness: a batch of several operations of different kinds was sent.
C3_Witness ==
    /\ sent # << >>
    /\ call.endpoint = "ModifyRecords"
    /\ Len(call.operations) >= 2
    /\ call.operations[1] = DeleteRecord(2)
    /\ call.operations[2] = CreateRecord(Record(SampleLiteral))

\* The members of a Go Record value that hold something: a non-empty string,
\* a non-zero TTL, a non-nil pointer.
SetMembers(r) ==
    {k \in {"name", "type", "content", "ttl", "priority", "disabled"} :
        CASE k = "name"     -> r.Name # ""
          [] k = "type"     -> r.Type # ""
          [] k = "content"  -> r.Content # ""
          [] k = "ttl"      -> r.TTL # 0
          [] k = "priority" -> r.Priority # << >>
          [] k = "disabled" -> r.Disabled # << >>}

\* The JSON text a set member of a Record must be written as.
MemberText(r, k) ==
    CASE k = "name"     -> JString(r.Name)
      [] k = "type"     -> JString(r.Type)
      [] k = "content"  -> JString(r.Content)
      [] k = "ttl"      -> JInt(r.TTL)
      [] k = "priority" -> JInt(r.Priority[1])
      [] k = "disabled" -> JBool(r.Disabled[1])

\* C4: CreateRecord's value has no id key; ModifyRecord's value has the given
\* id and exactly the members set in the record, each once and with its
\* value (no change metadata, no delete key); DeleteRecord's value has
\* exactly id (the given id) and delete (true).
C4_OperationShapes ==
    LET r == Record(encIn.lit)
    IN  /\ encIn.kind = "create" => "id" \notin Keys(encOut)
        /\ encIn.kind = "modify"
             => /\ Keys(encOut) = {"id"} \cup SetMembers(r)
                /\ Len(encOut) = Cardinality(Keys(encOut))
                /\ Value(encOut, "id") = JInt(encIn.id)
                /\ \A k \in SetMembers(r) : Value(encOut, k) = MemberText(r, k)
        /\ encIn.kind = "delete"
             => /\ Keys(encOut) = {"id", "delete"}
                /\ Len(encOut) = 2
                /\ Value(encOut, "id") = JInt(encIn.id)
                /\ Value(encOut, "delete") = "true"

\* C4 witness: a modify of a record with some members set and others not.
C4_Witness ==
    /\ encIn.kind = "modify"
    /\ encIn.id = 2
    /\ encIn.lit.name = <<"www">>
    /\ encIn.lit.ttl = <<1>>
    /\ encIn.lit.priority = << >>
    /\ encIn.lit.disabled = <<FALSE>>
    /\ Keys(encOut) = {"name", "ttl", "disabled", "id"}

\* The explicit zero/false of an optional numeric or boolean field.
ZeroOf(f) == IF f = "disabled" THEN <<FALSE>> ELSE <<0>>

\* C5: for each of ttl, priority and disabled, a modify of a record that
\* leaves the field out is encoded differently from a modify of the same
\* record with the field explicitly zero/false.
C5_AbsentDiffersFromZero ==
    encIn.kind = "modify"
        => \A f \in {"ttl", "priority", "disabled"} :
              encIn.lit[f] = << >>
                 => encOut # ModifyRecord(encIn.id,
                                 Record([encIn.lit EXCEPT ![f] = ZeroOf(f)]))

\* C6: for the envelope with error "invalid domain" and errorData
\* {"domain": "not found"}, the returned error gives the caller both the
\* message and the entry domain -> "not found".
C6_ErrorCarriesDetail ==
    (EnvelopeDecoded
     /\ wire.error = <<"string", "invalid domain">>
     /\ wire.errorData = <<"object", "domain", "not found">>)
        => \E i \in DOMAIN result.err :
              /\ result.err[i].text = "API error: invalid domain"
              /\ "errorData" \in DOMAIN result.err[i]
              /\ <<"domain", "not found">> \in result.err[i].errorData

\* C7: a call whose context is done before the reply has fully arrived
\* returns, and returns an error and no typed result.
C7_CancelledCallFails ==
    /\ []((pc = "returned" /\ cancelledEarly)
            => (result.err # << >> /\ result.val = << >> /\ ~result.panicked))
    /\ ((cancelledEarly /\ pc \in {"do", "decode"}) ~> (pc = "returned"))

\* C7 witness: the context was cancelled between the reply's headers and its
\* body, and the call returned the context's error.
C7_Witness ==
    /\ pc = "returned"
    /\ cancelledEarly
    /\ net = "headers"
    /\ bodyState = "closed"
    /\ result.err = <<ContextError>>

\* C8: a call never returns holding an open body; a body that was obtained
\* has been closed, once, by the return, and none is closed otherwise.
C8_BodyClosedOnReturn ==
    /\ pc = "returned" => bodyState \in {"none", "closed"}
    /\ bodyState = "open" <=> pc = "decode"
    /\ closeCalls = (IF bodyState = "closed" THEN 1 ELSE 0)
    /\ (bodyState = "none" /\ pc = "returned") => result.err # << >>

\* C8 witness: the body was closed on a return that was not a normal one
\* (the wrapper terminated abnormally after request had returned).
C8_Witness ==
    /\ pc = "returned"
    /\ bodyState = "closed"
    /\ closeCalls = 1
    /\ result.panicked

\* C9: a request handed to the transport has had AddHeaders applied exactly
\* once when an authenticator is configured, and then carries exactly that
\* variant's two headers with the stored credentials; with no authenticator
\* it carries no header; nothing else of the request differs from the request
\* as constructed.
C9_AuthHeaders ==
    sent # << >>
        => LET h == sent[1].Header
               a == authenticator
           IN  /\ a.kind = "nil" => (authCalls = 0 /\ DOMAIN h = {})
               /\ a.kind = "ApiKeyAuthenticator"
                    => /\ authCalls = 1
                       /\ DOMAIN h = {"X-API-User", "X-API-Key"}
                       /\ h["X-API-User"] = <<a.User>>
                       /\ h["X-API-Key"] = <<a.Key>>
               /\ a.kind = "DomainKeyAuthenticator"
                    => /\ authCalls = 1
                       /\ DOMAIN h = {"X-Domain", "X-Domain-Key"}
                       /\ h["X-Domain"] = <<a.Domain>>
                       /\ h["X-Domain-Key"] = <<a.Key>>
               /\ sent[1].ctx = "ctx"
               /\ sent[1].Method = Method(call.endpoint)
               /\ \E now \in Times :
                     sent[1].URL = URL(Route(call.endpoint, call.domain, now))

\* C9 witness: a request with the API-key headers is with the transport.
C9_Witness ==
    /\ pc = "do"
    /\ sent # << >>
    /\ authenticator.kind = "ApiKeyAuthenticator"
    /\ authCalls = 1

\* C10: every call ends by returning a typed result or an error; when the
\* envelope has no error and its response is absent, null or of the wrong
\* shape, the call returns an endpoint decode error.
C10_AlwaysReturnsResultOrError ==
    pc = "returned"
        => /\ ~result.panicked
           /\ (result.val # << >> \/ result.err # << >>)
           /\ (EnvelopeDecoded
               /\ wire.error[1] \in {"absent", "null"}
               /\ wire.response # <<"raw", "{...}">>)
                 => "endpointDecode" \in ErrClasses(result)

====
